---- MODULE Spec2Model ----
(***************************************************************************)
(* Model of teams.py: the resumable, checkpointed download of one chat     *)
(* (download_chat and its inner loop), the checkpoint file (TEMP_FILE)     *)
(* and the archive writer (save_msg).                                      *)
(*                                                                         *)
(* A url is the number of the page it designates: 1 is the first request   *)
(* (GRAPH_URL/<id>/messages with TOP_PARAM), k > 1 is the @odata.nextLink  *)
(* carried by page k-1.  Null stands for Python's None.                    *)
(* A timestamp is a number of half days, so that two timestamps can fall   *)
(* on the same calendar date; load_date maps a timestamp to its date.      *)
(***************************************************************************)
EXTENDS Integers, Sequences, FiniteSets, TLC

\* ------------------------------------------------------------------ bounds

\* Records of a small conversation.
MaxRecs == 2
\* Runs of download_chat in one behaviour.
MaxRuns == 2
\* Pages of the long conversation (the one that reaches SAVE_EVERY), and the
\* runs of download_chat on it.
LongPages == 7
LongRuns == 1
\* Pages of the conversation of several pages of two records.
ManyPages == 3

\* ------------------------------------------------------- program constants

SAVE_EVERY == 250
\* TOP_PARAM = {"$top": "50"}: the page size asked of the server.
TOP == 50

Null == 0
\* max_messages = None and oldest_date = None.
NoMax == 0
NoDate == -1
NoEntry == [next_url |-> -1, num |-> -1]

ChatIds == {"a", "b"}
PageLens == {1, 2}

\* ------------------------------------------------------- the server's data

\* What a raw record can look like to the loop:
\*   message   messageType "message", text body, no attachments
\*   blank     messageType "message", whitespace body, no attachments
\*   attach    messageType "message", whitespace body, attachments
\*   system    messageType other than "message"
\*   nodate    messageType "message", createdDateTime missing
\*   nofrom    messageType "message", "from" is null (no user displayName)
Kinds == {"message", "blank", "attach", "system", "nodate", "nofrom"}
SpecialKinds == Kinds \ {"message"}

\* Records on a page of the conversation of several pages.
PairLen == 2

\* Timestamps per calendar day: a timestamp t falls on day t \div DayLen.
DayLen == MaxRecs + ManyPages * PairLen + 1
\* The day of the records in `old`, and the day of the others.
OldDay == 1
NewDay == 2

\* --max-messages, --oldest-date, --ask-continue values tried.
MaxMessagesArgs == {NoMax, 1, 2}
OldestDateArgs == {NoDate, NewDay}
AskContinueArgs == {-1, 1, 2}

\* createdDateTime of the record at position i: within a day, an earlier
\* position is a later time (the server lists the newest first).
TimeOf(i, old) == (IF i \in old THEN OldDay ELSE NewDay) * DayLen + (DayLen - i)

\* The conversations tried: all plain messages but at most one record of
\* another kind, any set of records dated a day earlier, pages of 1 or 2; and
\* one long conversation of LongPages pages of TOP plain messages.
SmallConvs ==
  [long : {FALSE}, len : {MaxRecs}, pagelen : PageLens,
   sp : 0 .. MaxRecs, sk : SpecialKinds, old : SUBSET (1 .. MaxRecs)]
LongConv ==
  [long |-> TRUE, len |-> LongPages * TOP, pagelen |-> TOP,
   sp |-> 0, sk |-> "blank", old |-> {}]
Convs == {v \in SmallConvs : v.sp = 0 => v.sk = "blank"} \cup {LongConv}

\* createdDateTime in the long conversation: every record is later than the
\* next one, and none is older than NewDay.
LongTime(i) == NewDay * DayLen + LongPages * TOP - i

KindOf(v, i) == IF i = v.sp THEN v.sk ELSE "message"

\* Every record is a plain message and the records are in reverse
\* chronological order, as the server lists them.
Regular(v) ==
  /\ v.sp = 0
  /\ \A i \in v.old : \A j \in 1 .. v.len : j > i => j \in v.old

\* Runs of download_chat tried on a conversation: the regular small
\* conversations are downloaded again and again, the others once.
RunLimit(v) ==
  IF v.long THEN LongRuns ELSE IF Regular(v) THEN MaxRuns ELSE 1

\* The raw record at position i of chat c (position 1 is served first).
RawRecord(v, c, i) ==
  [id |-> i, chat |-> c, kind |-> KindOf(v, i),
   time |-> IF v.long THEN LongTime(i) ELSE TimeOf(i, v.old)]

NumPages(v) == (v.len + v.pagelen - 1) \div v.pagelen

\* data["value"] of page p.
PageRecords(v, c, p) ==
  LET lo == (p - 1) * v.pagelen + 1
      hi == IF p * v.pagelen < v.len THEN p * v.pagelen ELSE v.len
  IN  [k \in 1 .. (hi - lo + 1) |-> RawRecord(v, c, lo + k - 1)]

\* data.get("@odata.nextLink") of page p.
NextLink(v, p) == IF p < NumPages(v) THEN p + 1 ELSE Null

\* ------------------------------------------------------------------- state

VARIABLES
  conv,           \* the server's conversation (the same shape for every chat)
  progress,       \* TEMP_FILE["chat_progress"]: chat id -> checkpoint
  archive,        \* the archive file of each chat, as a sequence of tokens
  pc,             \* where download_chat is
  chat,           \* download_chat's chat argument
  max_messages, oldest_date, ask_continue,
  url,            \* loop's url
  data,           \* the decoded page: [value, next]
  messages,       \* the in-memory buffer
  num_requests, since_confirm, tot_msg,
  stop,           \* how the run ended (observer)
  accepted,       \* every message appended to the buffer by this run (observer)
  archive0,       \* the chat's archive when the run began (observer)
  started,        \* the url the run started from (observer)
  fetched,        \* pages fetched successfully by this run (observer)
  ckpts,          \* checkpoint writes of this run (observer)
  runs,           \* runs begun so far (bounded by RunLimit)
  maxpage,        \* per chat, the last page any run has fetched (history)
  refetched,      \* some run fetched a page that had been fetched (history)
  restarted,      \* some run of a chat downloaded before began at page one
                  \* (history)
  chat_list,      \* TEMP_FILE["chat_list"]: the cached list of chats
  main,           \* where main is, and the chats its loop has yet to download
  out,            \* save_msg's open file: what has been written to it
  lost            \* per chat, the messages that were in the buffer when the
                  \* process died (history)

vars ==
  <<conv, progress, archive, pc, chat, max_messages, oldest_date, ask_continue,
    url, data, messages, num_requests, since_confirm, tot_msg,
    stop, accepted, archive0, started, fetched, ckpts, runs, maxpage,
    refetched, restarted, chat_list, main, out, lost>>

\* download_chat's arguments (skip_downloaded is read once, on entry, and is
\* not kept).
argvars == <<chat, max_messages, oldest_date, ask_continue>>
\* What is kept of the runs so far.
histvars == <<runs, maxpage, refetched, restarted>>
\* What download_chat running to its end never touches: the cached chat list,
\* main's own position, save_msg's file handle, the record of the crashes.
othervars == <<chat_list, main, out, lost>>

\* main is not in its --download-all loop.
NoMain == [pc |-> "off", n |-> 0, chats |-> <<>>, max_msg |-> NoMax,
           oldest_date |-> NoDate, result |-> [c \in ChatIds |-> "none"]]

NoData == [value |-> <<>>, next |-> Null]

\* ----------------------------------------------------------------- helpers

\* load_date: the calendar date of a timestamp.
load_date(t) == t \div DayLen

\* reversed(s)
Reverse(s) == [i \in 1 .. Len(s) |-> s[Len(s) + 1 - i]]

\* The dict download_chat.loop builds from a raw record.
Message(r) ==
  [id |-> r.id, chat |-> r.chat, time |-> r.time,
   body |-> IF r.kind = "message" THEN "text" ELSE " ",
   attachments |-> IF r.kind = "attach" THEN 1 ELSE 0]

\* RecordStep with line 184 reading tot_msg > max_messages.
RecordStep_MaxOffByOne(r, msgs, tot, maxm, oldest) ==
  IF r.kind = "system"
    THEN [messages |-> msgs, tot_msg |-> tot, exit |-> "none"]
  ELSE IF oldest # NoDate /\ r.kind = "nodate"
    THEN [messages |-> msgs, tot_msg |-> tot, exit |-> "none"]
  ELSE IF oldest # NoDate /\ oldest > load_date(r.time)
    THEN [messages |-> msgs, tot_msg |-> tot, exit |-> "date"]
  ELSE IF r.kind \in {"nodate", "nofrom"}
    THEN [messages |-> msgs, tot_msg |-> tot, exit |-> "none"]
  ELSE [messages |-> Append(msgs, Message(r)), tot_msg |-> tot + 1,
        exit |-> IF maxm # NoMax /\ tot + 1 > maxm THEN "max" ELSE "none"]

\* RecordStep with line 167 reading oldest_date >= load_date(...).
RecordStep_DateInclusiveStop(r, msgs, tot, maxm, oldest) ==
  IF r.kind = "system"
    THEN [messages |-> msgs, tot_msg |-> tot, exit |-> "none"]
  ELSE IF oldest # NoDate /\ r.kind = "nodate"
    THEN [messages |-> msgs, tot_msg |-> tot, exit |-> "none"]
  ELSE IF oldest # NoDate /\ oldest >= load_date(r.time)
    THEN [messages |-> msgs, tot_msg |-> tot, exit |-> "date"]
  ELSE IF r.kind \in {"nodate", "nofrom"}
    THEN [messages |-> msgs, tot_msg |-> tot, exit |-> "none"]
  ELSE [messages |-> Append(msgs, Message(r)), tot_msg |-> tot + 1,
        exit |-> IF maxm # NoMax /\ tot + 1 >= maxm THEN "max" ELSE "none"]

\* download_chat.loop, lines 164-186: the body of the for loop for one raw
\* record r, from the buffer msgs and the count tot.  exit is "date" or "max"
\* when the body returns from loop(), "none" when the for loop goes on.
RecordStep(r, msgs, tot, maxm, oldest) ==
  IF r.kind = "system"
    THEN [messages |-> msgs, tot_msg |-> tot, exit |-> "none"]
  ELSE IF oldest # NoDate /\ r.kind = "nodate"
    THEN [messages |-> msgs, tot_msg |-> tot, exit |-> "none"]
  ELSE IF oldest # NoDate /\ oldest > load_date(r.time)
    THEN [messages |-> msgs, tot_msg |-> tot, exit |-> "date"]
  ELSE IF r.kind \in {"nodate", "nofrom"}
    THEN [messages |-> msgs, tot_msg |-> tot, exit |-> "none"]
  ELSE [messages |-> Append(msgs, Message(r)), tot_msg |-> tot + 1,
        exit |-> IF maxm # NoMax /\ tot + 1 >= maxm THEN "max" ELSE "none"]

\* Line 163: the for loop over data["value"], record after record until one
\* returns.  (The records are taken by halves to keep the evaluation shallow;
\* the order of the records is the page's.)
RECURSIVE ForRecords(_, _, _, _, _)
ForRecords(recs, msgs, tot, maxm, oldest) ==
  IF recs = <<>> THEN [messages |-> msgs, tot_msg |-> tot, exit |-> "none"]
  ELSE IF Len(recs) = 1 THEN RecordStep(recs[1], msgs, tot, maxm, oldest)
  ELSE
    LET h == Len(recs) \div 2
        first == ForRecords(SubSeq(recs, 1, h), msgs, tot, maxm, oldest)
    IN  IF first.exit # "none" THEN first
        ELSE ForRecords(SubSeq(recs, h + 1, Len(recs)), first.messages,
                        first.tot_msg, maxm, oldest)

\* download_chat.loop, lines 157-210, from page p with the buffer msgs and the
\* count tot, when every request succeeds and the user never answers N: what
\* the loop has accepted when it returns, why it returns (exit) and on which
\* page (url).  The flush of lines 187-189 is left out: messages is all that
\* was accepted.
RECURSIVE LoopFrom(_, _, _, _, _, _, _)
LoopFrom(v, c, p, msgs, tot, maxm, oldest) ==
  LET r == ForRecords(PageRecords(v, c, p), msgs, tot, maxm, oldest)
  IN  IF r.exit # "none"
        THEN [messages |-> r.messages, tot_msg |-> r.tot_msg,
              exit |-> r.exit, url |-> p]
      ELSE IF NextLink(v, p) = Null
        THEN [messages |-> r.messages, tot_msg |-> r.tot_msg,
              exit |-> "exhausted", url |-> p]
      ELSE LoopFrom(v, c, NextLink(v, p), r.messages, r.tot_msg, maxm, oldest)

\* ----------------------------------------------------------- archive files

\* A file's text is a sequence of tokens: the title heading, one token for
\* each message entry, and Sep for each "\n\n" written between them.
Sep == [type |-> "sep", chat |-> "", id |-> 0, time |-> 0, attachments |-> 0]
TitleLine(title) ==
  [type |-> "title", chat |-> title, id |-> 0, time |-> 0, attachments |-> 0]
EntryLine(m) ==
  [type |-> "entry", chat |-> m.chat, id |-> m.id, time |-> m.time,
   attachments |-> m.attachments]

\* "\n\n".join(lines)
Join(lines) ==
  IF lines = <<>> THEN <<>>
  ELSE [i \in 1 .. (2 * Len(lines) - 1) |->
          IF i % 2 = 1 THEN lines[(i + 1) \div 2] ELSE Sep]

\* save_msg, line 239: the message is written.
Written(m) == ~(m.body = " " /\ m.attachments = 0)

\* EntryLines without the test of line 239.
EntryLines_KeepBlank(msgs) == [i \in 1 .. Len(msgs) |-> EntryLine(msgs[i])]

\* save_msg, lines 238-244: the entries of the messages, in the order given.
EntryLines(msgs) ==
  LET kept == SelectSeq(msgs, Written)
  IN  [i \in 1 .. Len(kept) |-> EntryLine(kept[i])]

\* save_msg that writes the new content and not the text the file held.
save_msg_Overwrite(existing, msgs, title) ==
  LET lines == (IF existing = <<>> THEN <<TitleLine(title)>> ELSE <<>>)
               \o EntryLines(Reverse(msgs))
  IN  Join(lines) \o <<Sep>>

\* save_msg with line 238 iterating messages, not reversed(messages).
save_msg_NotReversed(existing, msgs, title) ==
  LET lines == (IF existing = <<>> THEN <<TitleLine(title)>> ELSE <<>>)
               \o EntryLines(msgs)
  IN  Join(lines) \o <<Sep>> \o existing

\* save_msg: the text of the file after the call, from its text before.
save_msg(existing, msgs, title) ==
  LET lines == (IF existing = <<>> THEN <<TitleLine(title)>> ELSE <<>>)
               \o EntryLines(Reverse(msgs))
  IN  Join(lines) \o <<Sep>> \o existing

\* ------------------------------------------------------------ checkpoints

\* read_temp_file()["chat_progress"] has an entry for c.
HasEntry(c) == progress[c] # NoEntry

\* UpdateTempFile that writes a document holding the one entry only.
UpdateTempFile_OnlyThisChat(prog, c, next_url, num) ==
  [d \in ChatIds |->
     IF d = c THEN [next_url |-> next_url, num |-> num] ELSE NoEntry]

\* _update_temp_file: read the whole document, set one entry, write it back.
UpdateTempFile(prog, c, next_url, num) ==
  [prog EXCEPT ![c] = [next_url |-> next_url, num |-> num]]

\* -------------------------------------------------------------------- Init

\* Before the first run: no TEMP_FILE, no archive, nothing running.
NothingYet ==
  /\ progress = [c \in ChatIds |-> NoEntry]
  /\ archive = [c \in ChatIds |-> <<>>]
  /\ pc = "idle"
  /\ chat = "a"
  /\ max_messages = NoMax
  /\ oldest_date = NoDate
  /\ ask_continue = -1
  /\ url = 1
  /\ data = NoData
  /\ messages = <<>>
  /\ num_requests = 1
  /\ since_confirm = 1
  /\ tot_msg = 0
  /\ stop = "none"
  /\ accepted = <<>>
  /\ archive0 = <<>>
  /\ started = 1
  /\ fetched = 0
  /\ ckpts = 0
  /\ runs = 0
  /\ maxpage = [c \in ChatIds |-> 0]
  /\ refetched = FALSE
  /\ restarted = FALSE
  /\ chat_list = <<>>
  /\ main = NoMain
  /\ out = <<>>
  /\ lost = [c \in ChatIds |-> {}]

Init ==
  /\ conv \in Convs
  /\ NothingYet

\* The arguments main passes: (chat, max_msg, oldest_date, ask_continue, False)
\* for one chat, (chat, max_msg, oldest_date, -1, True) under --download-all.
Args ==
  {a \in [max_messages : MaxMessagesArgs, oldest_date : OldestDateArgs,
          ask_continue : AskContinueArgs, skip_downloaded : BOOLEAN] :
     a.skip_downloaded => a.ask_continue = -1}

\* Begin with the count of a resumed run starting at the number of records
\* on the pages before its cursor.
Begin_CountGoesOn(c, a, u) ==
  /\ chat' = c
  /\ max_messages' = a.max_messages
  /\ oldest_date' = a.oldest_date
  /\ ask_continue' = a.ask_continue
  /\ url' = u
  /\ data' = NoData
  /\ messages' = <<>>
  /\ num_requests' = 1
  /\ since_confirm' = 1
  /\ tot_msg' = (u - 1) * conv.pagelen
  /\ accepted' = <<>>
  /\ archive0' = archive[c]
  /\ started' = u
  /\ fetched' = 0
  /\ ckpts' = 0
  /\ runs' = runs + 1
  /\ restarted' =
       (restarted \/ (u = 1 /\ (HasEntry(c) \/ archive[c] # <<>>)))
  /\ UNCHANGED <<conv, progress, archive, maxpage, refetched, othervars>>

\* Lines 148-151 and the observers, for a run of chat c that starts at u.
Begin(c, a, u) ==
  /\ chat' = c
  /\ max_messages' = a.max_messages
  /\ oldest_date' = a.oldest_date
  /\ ask_continue' = a.ask_continue
  /\ url' = u
  /\ data' = NoData
  /\ messages' = <<>>
  /\ num_requests' = 1
  /\ since_confirm' = 1
  /\ tot_msg' = 0
  /\ accepted' = <<>>
  /\ archive0' = archive[c]
  /\ started' = u
  /\ fetched' = 0
  /\ ckpts' = 0
  /\ runs' = runs + 1
  /\ restarted' =
       (restarted \/ (u = 1 /\ (HasEntry(c) \/ archive[c] # <<>>)))
  /\ UNCHANGED <<conv, progress, archive, maxpage, refetched, othervars>>

\* A new run of chat c may begin: download_chat is not running and the bound
\* on runs is not reached.  Chat "b" comes after chat "a", as in main's loop
\* over the chats; the chats have the same content, so nothing is lost.
MayStart(c) ==
  /\ pc = "idle"
  /\ runs < RunLimit(conv)
  /\ c = "b" => runs > 0

\* download_chat, lines 129-151, no checkpoint entry for the chat.
StartFresh ==
  /\ \E c \in ChatIds, a \in Args :
       /\ MayStart(c)
       /\ ~HasEntry(c)
       /\ Begin(c, a, 1)
  /\ pc' = "fetch"
  /\ stop' = "none"

\* Lines 135-141: the entry has a cursor and the user answers Y.
StartResume ==
  /\ \E c \in ChatIds, a \in Args :
       /\ MayStart(c)
       /\ HasEntry(c) /\ progress[c].next_url # Null
       /\ Begin(c, a, progress[c].next_url)
  /\ pc' = "fetch"
  /\ stop' = "none"

\* Lines 135-141, the user does not answer Y; lines 142-144, the entry has no
\* cursor, skip_downloaded is off and the user does not answer N: from page one.
StartOver ==
  /\ \E c \in ChatIds, a \in Args :
       /\ MayStart(c)
       /\ HasEntry(c)
       /\ progress[c].next_url = Null => ~a.skip_downloaded
       /\ Begin(c, a, 1)
  /\ pc' = "fetch"
  /\ stop' = "none"

\* Lines 142-145: the entry has no cursor, and skip_downloaded is on or the
\* user answers N: download_chat returns at once.
StartSkip ==
  /\ \E c \in ChatIds, a \in Args :
       /\ MayStart(c)
       /\ HasEntry(c) /\ progress[c].next_url = Null
       /\ Begin(c, a, 1)
  /\ pc' = "done"
  /\ stop' = "skipped"

\* Lines 160-162: the request succeeds.
FetchOk ==
  /\ pc = "fetch"
  /\ data' = [value |-> PageRecords(conv, chat, url), next |-> NextLink(conv, url)]
  /\ fetched' = fetched + 1
  /\ maxpage' = [maxpage EXCEPT ![chat] = IF url > @ THEN url ELSE @]
  /\ refetched' = (refetched \/ url <= maxpage[chat])
  /\ pc' = "records"
  /\ UNCHANGED <<conv, progress, archive, argvars, url, messages, num_requests,
                 since_confirm, tot_msg, stop, accepted, archive0, started,
                 ckpts, runs, restarted, othervars>>

\* FetchForbidden that also drops the chat's checkpoint entry.
FetchForbidden_DropsEntry ==
  /\ pc = "fetch"
  /\ pc' = "done"
  /\ stop' = "forbidden"
  /\ progress' = [progress EXCEPT ![chat] = NoEntry]
  /\ UNCHANGED <<conv, archive, argvars, url, data, messages,
                 num_requests, since_confirm, tot_msg, accepted, archive0,
                 started, fetched, ckpts, histvars, othervars>>

\* Line 161 raises HTTPError 403; lines 214-217 return.
FetchForbidden ==
  /\ pc = "fetch"
  /\ pc' = "done"
  /\ stop' = "forbidden"
  /\ UNCHANGED <<conv, progress, archive, argvars, url, data, messages,
                 num_requests, since_confirm, tot_msg, accepted, archive0,
                 started, fetched, ckpts, histvars, othervars>>

\* Lines 160-161 raise anything else; line 218 re-raises it to the caller.
FetchError ==
  /\ pc = "fetch"
  /\ pc' = "done"
  /\ stop' = "error"
  /\ UNCHANGED <<conv, progress, archive, argvars, url, data, messages,
                 num_requests, since_confirm, tot_msg, accepted, archive0,
                 started, fetched, ckpts, histvars, othervars>>

\* LoopRecords with the checkpoint written on a cutoff too, its cursor null.
LoopRecords_CheckpointNullOnCutoff ==
  /\ pc = "records"
  /\ LET r == ForRecords(data.value, messages, tot_msg, max_messages, oldest_date)
     IN  /\ messages' = r.messages
         /\ tot_msg' = r.tot_msg
         /\ accepted' =
              accepted \o SubSeq(r.messages, Len(messages) + 1, Len(r.messages))
         /\ stop' = IF r.exit = "none" THEN stop ELSE r.exit
         /\ pc' = IF r.exit = "none" THEN "save" ELSE "finish"
         /\ progress' = IF r.exit = "none" THEN progress
                        ELSE UpdateTempFile(progress, chat, Null, num_requests)
         /\ ckpts' = IF r.exit = "none" THEN ckpts ELSE ckpts + 1
  /\ UNCHANGED <<conv, archive, argvars, url, data, num_requests,
                 since_confirm, archive0, started, fetched, histvars, othervars>>

\* LoopRecords with the checkpoint of line 191 written on a cutoff as well.
LoopRecords_CheckpointOnCutoff ==
  /\ pc = "records"
  /\ LET r == ForRecords(data.value, messages, tot_msg, max_messages, oldest_date)
     IN  /\ messages' = r.messages
         /\ tot_msg' = r.tot_msg
         /\ accepted' =
              accepted \o SubSeq(r.messages, Len(messages) + 1, Len(r.messages))
         /\ stop' = IF r.exit = "none" THEN stop ELSE r.exit
         /\ pc' = IF r.exit = "none" THEN "save" ELSE "finish"
         /\ progress' = IF r.exit = "none" THEN progress
                        ELSE UpdateTempFile(progress, chat, data.next,
                                            num_requests)
         /\ ckpts' = IF r.exit = "none" THEN ckpts ELSE ckpts + 1
  /\ UNCHANGED <<conv, archive, argvars, url, data, num_requests,
                 since_confirm, archive0, started, fetched, histvars,
                 othervars>>

\* Lines 163-186: the for loop over the page.  A date or max-message stop
\* returns from loop(), past the rest of the iteration, to line 219.
LoopRecords ==
  /\ pc = "records"
  /\ LET r == ForRecords(data.value, messages, tot_msg, max_messages, oldest_date)
     IN  /\ messages' = r.messages
         /\ tot_msg' = r.tot_msg
         /\ accepted' =
              accepted \o SubSeq(r.messages, Len(messages) + 1, Len(r.messages))
         /\ stop' = IF r.exit = "none" THEN stop ELSE r.exit
         /\ pc' = IF r.exit = "none" THEN "save" ELSE "finish"
  /\ UNCHANGED <<conv, progress, archive, argvars, url, data, num_requests,
                 since_confirm, archive0, started, fetched, ckpts, histvars, othervars>>

\* LoopSave that waits for one more page of messages.
LoopSave_LateFlush ==
  /\ pc = "save"
  /\ IF Len(messages) > SAVE_EVERY + TOP
       THEN /\ archive' = [archive EXCEPT ![chat] = save_msg(@, messages, chat)]
            /\ messages' = <<>>
       ELSE UNCHANGED <<archive, messages>>
  /\ pc' = "checkpoint"
  /\ UNCHANGED <<conv, progress, argvars, url, data, num_requests,
                 since_confirm, tot_msg, stop, accepted, archive0, started,
                 fetched, ckpts, histvars, othervars>>

\* Lines 187-189.
LoopSave ==
  /\ pc = "save"
  /\ IF Len(messages) > SAVE_EVERY
       THEN /\ archive' = [archive EXCEPT ![chat] = save_msg(@, messages, chat)]
            /\ messages' = <<>>
       ELSE UNCHANGED <<archive, messages>>
  /\ pc' = "checkpoint"
  /\ UNCHANGED <<conv, progress, argvars, url, data, num_requests,
                 since_confirm, tot_msg, stop, accepted, archive0, started,
                 fetched, ckpts, histvars, othervars>>

\* LoopCheckpoint with the return of lines 192-197 placed before the write.
LoopCheckpoint_NotOnLastPage ==
  /\ pc = "checkpoint"
  /\ IF data.next = Null
       THEN /\ pc' = "finish" /\ stop' = "exhausted"
            /\ UNCHANGED <<progress, ckpts>>
       ELSE /\ pc' = "ask" /\ stop' = stop
            /\ progress' = UpdateTempFile(progress, chat, data.next, num_requests)
            /\ ckpts' = ckpts + 1
  /\ UNCHANGED <<conv, archive, argvars, url, data, messages, num_requests,
                 since_confirm, tot_msg, accepted, archive0, started, fetched,
                 histvars, othervars>>

\* Lines 190-197: the checkpoint, then the return when there is no next link.
LoopCheckpoint ==
  /\ pc = "checkpoint"
  /\ progress' = UpdateTempFile(progress, chat, data.next, num_requests)
  /\ ckpts' = ckpts + 1
  /\ IF data.next = Null
       THEN pc' = "finish" /\ stop' = "exhausted"
       ELSE pc' = "ask" /\ stop' = stop
  /\ UNCHANGED <<conv, archive, argvars, url, data, messages, num_requests,
                 since_confirm, tot_msg, accepted, archive0, started, fetched,
                 histvars, othervars>>

\* Line 199.
MustAsk == ask_continue > 0 /\ since_confirm = ask_continue

\* Lines 199-204: the interval has elapsed and the user answers N.
LoopDecline ==
  /\ pc = "ask"
  /\ MustAsk
  /\ pc' = "finish"
  /\ stop' = "declined"
  /\ UNCHANGED <<conv, progress, archive, argvars, url, data, messages,
                 num_requests, since_confirm, tot_msg, accepted, archive0,
                 started, fetched, ckpts, histvars, othervars>>

\* LoopNext without the reset of line 205.
LoopNext_NoReset ==
  /\ pc = "ask"
  /\ since_confirm' = since_confirm + 1
  /\ num_requests' = num_requests + 1
  /\ url' = data.next
  /\ pc' = "fetch"
  /\ UNCHANGED <<conv, progress, archive, argvars, data, messages, tot_msg,
                 stop, accepted, archive0, started, fetched, ckpts, histvars,
                 othervars>>

\* Lines 199-210: no question, or the user does not answer N; on to the next
\* page.
LoopNext ==
  /\ pc = "ask"
  /\ since_confirm' = (IF MustAsk THEN 0 ELSE since_confirm) + 1
  /\ num_requests' = num_requests + 1
  /\ url' = data.next
  /\ pc' = "fetch"
  /\ UNCHANGED <<conv, progress, archive, argvars, data, messages, tot_msg,
                 stop, accepted, archive0, started, fetched, ckpts, histvars, othervars>>

\* Lines 219-221: loop() returned; what is left in the buffer is saved.
Finish ==
  /\ pc = "finish"
  /\ archive' = IF messages # <<>>
                  THEN [archive EXCEPT ![chat] = save_msg(@, messages, chat)]
                  ELSE archive
  /\ pc' = "done"
  /\ UNCHANGED <<conv, progress, argvars, url, data, messages, num_requests,
                 since_confirm, tot_msg, stop, accepted, archive0, started,
                 fetched, ckpts, histvars, othervars>>

\* download_chat has returned (or raised): its locals are gone.
Return ==
  /\ pc = "done"
  /\ pc' = "idle"
  /\ chat' = "a"
  /\ max_messages' = NoMax
  /\ oldest_date' = NoDate
  /\ ask_continue' = -1
  /\ url' = 1
  /\ data' = NoData
  /\ messages' = <<>>
  /\ num_requests' = 1
  /\ since_confirm' = 1
  /\ tot_msg' = 0
  /\ stop' = "none"
  /\ accepted' = <<>>
  /\ archive0' = <<>>
  /\ started' = 1
  /\ fetched' = 0
  /\ ckpts' = 0
  /\ UNCHANGED <<conv, progress, archive, histvars, othervars>>

Next ==
  \/ StartFresh
  \/ StartResume
  \/ StartOver
  \/ StartSkip
  \/ FetchOk
  \/ FetchForbidden
  \/ FetchError
  \/ LoopRecords
  \/ LoopSave
  \/ LoopCheckpoint
  \/ LoopDecline
  \/ LoopNext
  \/ Finish
  \/ Return

Spec == Init /\ [][Next]_vars

\* download_chat is over: its locals are gone.
LocalsGone ==
  /\ pc' = "idle"
  /\ chat' = "a"
  /\ max_messages' = NoMax
  /\ oldest_date' = NoDate
  /\ ask_continue' = -1
  /\ url' = 1
  /\ data' = NoData
  /\ messages' = <<>>
  /\ num_requests' = 1
  /\ since_confirm' = 1
  /\ tot_msg' = 0
  /\ stop' = "none"
  /\ accepted' = <<>>
  /\ archive0' = <<>>
  /\ started' = 1
  /\ fetched' = 0
  /\ ckpts' = 0

\* ----------------------- one chat of several pages, runs that can be cut

\* The conversations of ManyPages pages of PairLen plain messages, newest
\* first: all of one day, or the last two of the day before.
PagesConvs ==
  [long : {FALSE}, len : {ManyPages * PairLen}, pagelen : {PairLen},
   sp : {0}, sk : {"blank"},
   old : {{}, (ManyPages * PairLen - 1) .. (ManyPages * PairLen)}]

\* The arguments tried on them.
PagesArgs ==
  [max_messages : {NoMax, 1, 3, 5}, oldest_date : OldestDateArgs,
   ask_continue : {-1, 1}, skip_downloaded : {FALSE}]

PagesInit ==
  /\ conv \in PagesConvs
  /\ NothingYet

\* download_chat("a", ...), lines 129-151: no checkpoint entry.
PagesStartFresh ==
  /\ pc = "idle"
  /\ runs < MaxRuns
  /\ ~HasEntry("a")
  /\ \E a \in PagesArgs : Begin("a", a, 1)
  /\ pc' = "fetch"
  /\ stop' = "none"

\* PagesStartResume that starts one page before the stored cursor.
PagesStartResume_PageBefore ==
  /\ pc = "idle"
  /\ runs < MaxRuns
  /\ HasEntry("a") /\ progress["a"].next_url # Null
  /\ \E a \in PagesArgs : Begin("a", a, progress["a"].next_url - 1)
  /\ pc' = "fetch"
  /\ stop' = "none"

\* Lines 135-141: the entry has a cursor and the user answers Y.
PagesStartResume ==
  /\ pc = "idle"
  /\ runs < MaxRuns
  /\ HasEntry("a") /\ progress["a"].next_url # Null
  /\ \E a \in PagesArgs : Begin("a", a, progress["a"].next_url)
  /\ pc' = "fetch"
  /\ stop' = "none"

\* Lines 135-144: there is an entry and the user asks for page one again.
PagesStartOver ==
  /\ pc = "idle"
  /\ runs < MaxRuns
  /\ HasEntry("a")
  /\ \E a \in PagesArgs : Begin("a", a, 1)
  /\ pc' = "fetch"
  /\ stop' = "none"

\* The messages of the buffer that save_msg would have written.
Unflushed == {messages[k].id : k \in {j \in 1 .. Len(messages) : Written(messages[j])}}

\* The process dies while download_chat runs (power, kill, an exception that
\* nothing catches): the locals are gone, the files are what they were.
Crash ==
  /\ pc \in {"fetch", "records", "save", "checkpoint", "ask", "finish"}
  /\ LocalsGone
  /\ lost' = [lost EXCEPT ![chat] = @ \cup Unflushed]
  /\ UNCHANGED <<conv, progress, archive, histvars, chat_list, main, out>>

\* A request that fails ends the run as a crash at the fetch does.
PagesNext ==
  \/ PagesStartFresh
  \/ PagesStartResume
  \/ PagesStartOver
  \/ FetchOk
  \/ LoopRecords
  \/ LoopSave
  \/ LoopCheckpoint
  \/ LoopDecline
  \/ LoopNext
  \/ Finish
  \/ Return
  \/ Crash

PagesSpec == PagesInit /\ [][PagesNext]_vars

\* ------------------------------------------- main with --download-all

\* Invocations of main with --download-all in one behaviour.
MaxBulk == 2

\* The chats the server lists, in the order it lists them.
ServerChats == <<"a", "b">>

\* The conversations tried under --download-all: plain messages, newest first.
BulkConvs == {v \in SmallConvs : Regular(v) /\ v.sk = "blank"}

\* The whole TEMP_FILE document, as read_temp_file returns it.
TempFile == [chat_progress |-> progress, chat_list |-> chat_list]

\* list_chats, lines 107-109: read the document, set chat_list, write it back.
WriteChatList(current, chats) == [current EXCEPT !.chat_list = chats]

\* The arguments of line 366.
BulkArgs ==
  [max_messages |-> main.max_msg, oldest_date |-> main.oldest_date,
   ask_continue |-> -1, skip_downloaded |-> TRUE]

BulkInit ==
  /\ conv \in BulkConvs
  /\ NothingYet

\* python teams.py --download-all [--max-messages M] [--oldest-date D]:
\* main, lines 345-351 (the token is there).
MainStart ==
  /\ main.pc \in {"off", "bye", "raised"}
  /\ main.n < MaxBulk
  /\ pc = "idle"
  /\ \E m \in MaxMessagesArgs, d \in OldestDateArgs :
       main' = [pc |-> "list", n |-> main.n + 1, chats |-> <<>>,
                max_msg |-> m, oldest_date |-> d,
                result |-> [c \in ChatIds |-> "none"]]
  /\ UNCHANGED <<conv, progress, archive, pc, argvars, url, data, messages,
                 num_requests, since_confirm, tot_msg, stop, accepted,
                 archive0, started, fetched, ckpts, histvars, chat_list, out,
                 lost>>

\* Line 348, list_chats(): the cached list when there is one (lines 47-50),
\* else the server's list, written to TEMP_FILE (lines 52-111).
ListChats ==
  /\ main.pc = "list"
  /\ IF chat_list # <<>>
       THEN /\ main' = [main EXCEPT !.pc = "loop", !.chats = chat_list]
            /\ UNCHANGED <<progress, chat_list>>
       ELSE LET current == WriteChatList(TempFile, ServerChats)
            IN  /\ progress' = current.chat_progress
                /\ chat_list' = current.chat_list
                /\ main' = [main EXCEPT !.pc = "loop", !.chats = ServerChats]
  /\ UNCHANGED <<conv, archive, pc, argvars, url, data, messages,
                 num_requests, since_confirm, tot_msg, stop, accepted,
                 archive0, started, fetched, ckpts, histvars, out, lost>>

\* Line 366 is about to call download_chat on the next chat of the list.
BulkCall == main.pc = "loop" /\ main.chats # <<>> /\ pc = "idle"

\* Line 366 and download_chat, lines 129-151: no checkpoint entry.
BulkStartFresh ==
  /\ BulkCall
  /\ ~HasEntry(Head(main.chats))
  /\ Begin(Head(main.chats), BulkArgs, 1)
  /\ pc' = "fetch"
  /\ stop' = "none"

\* Lines 135-141: the entry has a cursor and the user answers Y.
BulkStartResume ==
  /\ BulkCall
  /\ HasEntry(Head(main.chats))
  /\ progress[Head(main.chats)].next_url # Null
  /\ Begin(Head(main.chats), BulkArgs, progress[Head(main.chats)].next_url)
  /\ pc' = "fetch"
  /\ stop' = "none"

\* Lines 135-141: the entry has a cursor and the user does not answer Y.
BulkStartOver ==
  /\ BulkCall
  /\ HasEntry(Head(main.chats))
  /\ progress[Head(main.chats)].next_url # Null
  /\ Begin(Head(main.chats), BulkArgs, 1)
  /\ pc' = "fetch"
  /\ stop' = "none"

\* Lines 142-145: the entry has no cursor and skip_downloaded is on.
BulkStartSkip ==
  /\ BulkCall
  /\ HasEntry(Head(main.chats))
  /\ progress[Head(main.chats)].next_url = Null
  /\ BulkArgs.skip_downloaded
  /\ Begin(Head(main.chats), BulkArgs, 1)
  /\ pc' = "done"
  /\ stop' = "skipped"

\* download_chat returns to line 367; the for loop of line 365 goes on.
BulkReturn ==
  /\ main.pc = "loop"
  /\ pc = "done"
  /\ stop # "error"
  /\ LocalsGone
  /\ main' = [main EXCEPT !.chats = Tail(@), !.result[chat] = stop]
  /\ UNCHANGED <<conv, progress, archive, histvars, chat_list, out, lost>>

\* download_chat raised at line 218: nothing in main catches it, the
\* exception leaves the for loop of line 365 and ends the process.
BulkRaise ==
  /\ main.pc = "loop"
  /\ pc = "done"
  /\ stop = "error"
  /\ LocalsGone
  /\ main' = [main EXCEPT !.pc = "raised", !.result[chat] = stop]
  /\ UNCHANGED <<conv, progress, archive, histvars, chat_list, out, lost>>

\* Lines 368-369: the list is done.
BulkBye ==
  /\ main.pc = "loop"
  /\ main.chats = <<>>
  /\ pc = "idle"
  /\ main' = [main EXCEPT !.pc = "bye"]
  /\ UNCHANGED <<conv, progress, archive, pc, argvars, url, data, messages,
                 num_requests, since_confirm, tot_msg, stop, accepted,
                 archive0, started, fetched, ckpts, histvars, chat_list, out,
                 lost>>

\* Under --download-all ask_continue is -1: the loop never asks.
BulkNext ==
  \/ MainStart
  \/ ListChats
  \/ BulkStartFresh
  \/ BulkStartResume
  \/ BulkStartOver
  \/ BulkStartSkip
  \/ FetchOk
  \/ FetchForbidden
  \/ FetchError
  \/ LoopRecords
  \/ LoopSave
  \/ LoopCheckpoint
  \/ LoopNext
  \/ Finish
  \/ BulkReturn
  \/ BulkRaise
  \/ BulkBye

BulkSpec == BulkInit /\ [][BulkNext]_vars

\* --------------------------------------- save_msg on its own: two batches

\* Longest batch given to save_msg.
MaxBatch == 2

\* The messages the batches are drawn from: with a body, blank, and blank
\* with attachments, in turn.
PoolIds == 1 .. (2 * MaxBatch)
PoolKind(i) ==
  IF i % 3 = 1 THEN "message" ELSE IF i % 3 = 2 THEN "blank" ELSE "attach"
PoolMessage(i) ==
  Message([id |-> i, chat |-> "a", kind |-> PoolKind(i), time |-> i])

\* The batches: the sequences of at most MaxBatch distinct messages.
Batches ==
  {[k \in 1 .. Len(ids) |-> PoolMessage(ids[k])] :
     ids \in {q \in UNION {[1 .. n -> PoolIds] : n \in 0 .. MaxBatch} :
                \A i, j \in 1 .. Len(q) : i # j => q[i] # q[j]}}

\* What the archive holds before the first batch: nothing, or an earlier flush.
PriorContents ==
  {<<>>,
   save_msg(<<>>,
            <<Message([id |-> 2 * MaxBatch + 1, chat |-> "a",
                       kind |-> "message", time |-> 0])>>,
            "a")}

SaveInit ==
  /\ conv = [long |-> FALSE, len |-> MaxRecs, pagelen |-> 1, sp |-> 0,
             sk |-> "blank", old |-> {}]
  /\ progress = [c \in ChatIds |-> NoEntry]
  /\ archive0 \in PriorContents
  /\ archive = [c \in ChatIds |-> IF c = "a" THEN archive0 ELSE <<>>]
  /\ pc = "flush1"
  /\ chat = "a"
  /\ max_messages = NoMax
  /\ oldest_date = NoDate
  /\ ask_continue = -1
  /\ url = 1
  /\ data = NoData
  /\ messages = <<>>
  /\ num_requests = 1
  /\ since_confirm = 1
  /\ tot_msg = 0
  /\ stop = "none"
  /\ accepted = <<>>
  /\ started = 1
  /\ fetched = 0
  /\ ckpts = 0
  /\ runs = 0
  /\ maxpage = [c \in ChatIds |-> 0]
  /\ refetched = FALSE
  /\ restarted = FALSE
  /\ chat_list = <<>>
  /\ main = NoMain
  /\ out = <<>>
  /\ lost = [c \in ChatIds |-> {}]

\* save_msg(B1, title): the first batch, kept in accepted.
FlushFirst ==
  /\ pc = "flush1"
  /\ \E b \in Batches :
       /\ accepted' = b
       /\ archive' = [archive EXCEPT ![chat] = save_msg(@, b, chat)]
  /\ pc' = "flush2"
  /\ UNCHANGED <<conv, progress, argvars, url, data, messages, num_requests,
                 since_confirm, tot_msg, stop, archive0, started, fetched,
                 ckpts, histvars, othervars>>

\* save_msg(B2, title): the second batch, which shares no message with the
\* first, kept in messages.
FlushSecond ==
  /\ pc = "flush2"
  /\ \E b \in Batches :
       /\ \A i \in 1 .. Len(b), j \in 1 .. Len(accepted) : b[i] # accepted[j]
       /\ messages' = b
       /\ archive' = [archive EXCEPT ![chat] = save_msg(@, b, chat)]
  /\ pc' = "flushed"
  /\ UNCHANGED <<conv, progress, argvars, url, data, num_requests,
                 since_confirm, tot_msg, stop, accepted, archive0, started,
                 fetched, ckpts, histvars, othervars>>

SaveNext ==
  \/ FlushFirst
  \/ FlushSecond

SaveSpec == SaveInit /\ [][SaveNext]_vars

\* ------------------------------------- save_msg write by write, and dying

\* save_msg, lines 234-245: content.
Content(existing, msgs, title) ==
  Join((IF existing = <<>> THEN <<TitleLine(title)>> ELSE <<>>)
       \o EntryLines(Reverse(msgs)))

\* save_msg(messages, title) is called on an archive that is empty or holds
\* an earlier flush (kept in archive0).
WriteInit ==
  /\ conv = [long |-> FALSE, len |-> MaxRecs, pagelen |-> 1, sp |-> 0,
             sk |-> "blank", old |-> {}]
  /\ progress = [c \in ChatIds |-> NoEntry]
  /\ archive0 \in PriorContents
  /\ archive = [c \in ChatIds |-> IF c = "a" THEN archive0 ELSE <<>>]
  /\ pc = "w_open"
  /\ chat = "a"
  /\ max_messages = NoMax
  /\ oldest_date = NoDate
  /\ ask_continue = -1
  /\ url = 1
  /\ data = NoData
  /\ messages \in Batches
  /\ num_requests = 1
  /\ since_confirm = 1
  /\ tot_msg = 0
  /\ stop = "none"
  /\ accepted = <<>>
  /\ started = 1
  /\ fetched = 0
  /\ ckpts = 0
  /\ runs = 0
  /\ maxpage = [c \in ChatIds |-> 0]
  /\ refetched = FALSE
  /\ restarted = FALSE
  /\ chat_list = <<>>
  /\ main = NoMain
  /\ out = <<>>
  /\ lost = [c \in ChatIds |-> {}]

\* What a step of save_msg leaves alone but for pc, out and the archive.
writevars ==
  <<conv, progress, argvars, url, data, messages, num_requests,
    since_confirm, tot_msg, stop, accepted, archive0, started, fetched,
    ckpts, histvars, chat_list, main, lost>>

\* Lines 231-246: existing is read (it is what archive0 holds), content is
\* built, and open(f, "w") empties the file.
WriteOpen ==
  /\ pc = "w_open"
  /\ archive' = [archive EXCEPT ![chat] = <<>>]
  /\ out' = <<>>
  /\ pc' = "w_content"
  /\ UNCHANGED writevars

\* Line 247: out.write(content).
WriteContent ==
  /\ pc = "w_content"
  /\ out' = out \o Content(archive0, messages, chat)
  /\ pc' = "w_sep"
  /\ UNCHANGED <<archive, writevars>>

\* Line 248: out.write("\n\n").
WriteSep ==
  /\ pc = "w_sep"
  /\ out' = out \o <<Sep>>
  /\ pc' = "w_existing"
  /\ UNCHANGED <<archive, writevars>>

\* Line 249: out.write(existing).
WriteExisting ==
  /\ pc = "w_existing"
  /\ out' = out \o archive0
  /\ pc' = "w_close"
  /\ UNCHANGED <<archive, writevars>>

\* Line 246, the end of the with block: the file is closed, all that was
\* written is in it.
WriteClose ==
  /\ pc = "w_close"
  /\ archive' = [archive EXCEPT ![chat] = out]
  /\ pc' = "written"
  /\ UNCHANGED <<out, writevars>>

\* The process dies after open() and before the file is closed: the file
\* holds what the buffered writes have let through, some beginning of what
\* was written.
WriteCrash ==
  /\ pc \in {"w_content", "w_sep", "w_existing", "w_close"}
  /\ \E k \in 0 .. Len(out) :
       archive' = [archive EXCEPT ![chat] = SubSeq(out, 1, k)]
  /\ pc' = "crashed"
  /\ UNCHANGED <<out, writevars>>

WriteNext ==
  \/ WriteOpen
  \/ WriteContent
  \/ WriteSep
  \/ WriteExisting
  \/ WriteClose
  \/ WriteCrash

WriteSpec == WriteInit /\ [][WriteNext]_vars

\* ------------------------------------------------------ reading an archive

IsEntry(t) == t.type = "entry"

\* The message entries of a document, top to bottom.
Entries(doc) == SelectSeq(doc, IsEntry)

\* s is what t ends with.
IsSuffix(s, t) ==
  /\ Len(s) <= Len(t)
  /\ SubSeq(t, Len(t) - Len(s) + 1, Len(t)) = s

\* No message has two entries in the document.
NoDuplicate(doc) ==
  LET e == Entries(doc)
  IN  \A i, j \in 1 .. Len(e) : i < j => e[i].id # e[j].id

\* The message has an entry in the document.
HasEntryFor(doc, m) == \E k \in 1 .. Len(doc) : doc[k] = EntryLine(m)

\* The entries that the messages msgs have, the last message first.
EntriesLastFirst(msgs) == EntryLines(Reverse(msgs))

\* The run of download_chat is over.
RunOver == pc = "done" /\ stop # "skipped"

\* The for loop over the fetched page has just been left.
PageRead ==
  \/ pc = "save"
  \/ pc = "finish" /\ stop \in {"date", "max"}

\* ---------------------------------------------------------------------- C1

\* C1 (as claimed): when every later run of a chat resumes from the stored
\* checkpoint, no message of the chat has more than one entry in its archive.
C1_NoDuplication ==
  ~restarted => \A c \in ChatIds : NoDuplicate(archive[c])

\* ---------------------------------------------------------------------- C2

\* C2 (as claimed): once the loop is done with a fetched page, a checkpoint
\* has been written for every page fetched, the cutoff page included.
C2_CheckpointEveryPage ==
  pc \in {"ask", "fetch", "finish", "done"} => ckpts = fetched

\* C2 (amended): a checkpoint is written exactly once for every page fetched
\* on which no max-message or oldest-date cutoff fires, with that page's next
\* link and the request counter, before exhaustion or a decline ends the loop;
\* the page on which a cutoff fires gets no checkpoint.
C2_CheckpointUnlessCutoff ==
  /\ pc \in {"records", "save", "checkpoint"} => ckpts = fetched - 1
  /\ pc \in {"ask", "fetch", "finish", "done"} =>
       ckpts = fetched - (IF stop \in {"date", "max"} THEN 1 ELSE 0)
  /\ (pc = "ask" \/ stop \in {"exhausted", "declined"}) =>
       /\ ckpts = fetched
       /\ progress[chat] = [next_url |-> data.next, num |-> num_requests]
       /\ num_requests = fetched
  /\ stop = "exhausted" => data.next = Null

C2_Witness ==
  /\ pc = "done" /\ stop = "max"
  /\ fetched = 2 /\ ckpts = 1
  /\ progress[chat].next_url = url

\* ---------------------------------------------------------------------- C3

\* C3 (as claimed): when a run is over, however it ended, every message it
\* put in the buffer that save_msg writes has its entry in the archive.
C3_BufferFlushed ==
  RunOver =>
    \A i \in 1 .. Len(accepted) :
      Written(accepted[i]) => HasEntryFor(archive[chat], accepted[i])

\* ---------------------------------------------------------------------- C4

\* The entries a run has added to the archive of its chat.
EntriesAdded == Len(Entries(archive[chat])) - Len(Entries(archive0))

\* C4 (as claimed): a run that the max-message cutoff ends has added exactly
\* max_messages entries to the archive.
C4_ExactlyMaxEntries ==
  (pc = "done" /\ stop = "max") => EntriesAdded = max_messages

\* C4 (amended): the count of accepted messages never passes max_messages; the
\* run stops at the record that brings it to max_messages, with exactly
\* max_messages messages accepted and given to save_msg, which writes an
\* entry for each of them that has a body or attachments: at most
\* max_messages entries, and exactly as many when none of them is blank.
C4_MaxCutoff ==
  /\ max_messages # NoMax => tot_msg <= max_messages
  /\ stop = "max" =>
       /\ pc \in {"finish", "done"}
       /\ tot_msg = max_messages
       /\ Len(accepted) = max_messages
       /\ accepted[Len(accepted)].id <= data.value[Len(data.value)].id
       /\ accepted[Len(accepted)].id >= data.value[1].id
  /\ (pc = "done" /\ stop = "max") =>
       /\ Entries(archive[chat]) =
            EntriesLastFirst(accepted) \o Entries(archive0)
       /\ EntriesAdded = Len(SelectSeq(accepted, Written))
       /\ EntriesAdded <= max_messages
       /\ (\A i \in 1 .. Len(accepted) : Written(accepted[i])) =>
            EntriesAdded = max_messages

\* The cutoff fired in the middle of a page, and one of the accepted messages
\* is blank.
C4_Witness ==
  /\ pc = "done" /\ stop = "max"
  /\ accepted[Len(accepted)].id < data.value[Len(data.value)].id
  /\ \E i \in 1 .. Len(accepted) : ~Written(accepted[i])
  /\ EntriesAdded = max_messages - 1

\* ---------------------------------------------------------------------- C5

\* The raw record is a plain message (messageType "message") with a date.
PlainDated(r) == r.kind \in {"message", "blank", "attach", "nofrom"}

\* The raw record is a plain message with every field the loop reads.
WellFormed(r) == r.kind \in {"message", "blank", "attach"}

\* Position of the first plain message of the page dated before the cutoff
\* date d, 0 when there is none.
FirstOlder(recs, d) ==
  LET olds == {i \in 1 .. Len(recs) :
                 PlainDated(recs[i]) /\ load_date(recs[i].time) < d}
  IN  IF olds = {} THEN 0 ELSE CHOOSE i \in olds : \A j \in olds : i <= j

\* The run has accepted the raw record.
Accepted(r) == \E j \in 1 .. Len(accepted) : accepted[j].id = r.id

\* C5: with an oldest date D, when the loop leaves a page: every well-formed
\* plain message of the page dated on D or later that comes before the first
\* plain message dated before D (and before a max-message stop) has been
\* accepted; the first plain message dated before D and every record after it
\* have not been accepted, and the loop has returned: no further page is
\* fetched.
C5_DateCutoff ==
  /\ stop = "date" => pc \in {"finish", "done"} /\ oldest_date # NoDate
  /\ (PageRead /\ oldest_date # NoDate) =>
       LET recs == data.value
           k == FirstOlder(recs, oldest_date)
       IN  /\ \A i \in 1 .. Len(recs) :
                (/\ WellFormed(recs[i])
                 /\ load_date(recs[i].time) >= oldest_date
                 /\ k = 0 \/ i < k
                 /\ stop # "max")
                => Accepted(recs[i])
           /\ k # 0 =>
                /\ pc = "finish"
                /\ stop \in {"date", "max"}
                /\ \A i \in k .. Len(recs) : ~Accepted(recs[i])
           /\ stop = "date" => k # 0

\* A message dated exactly on D was accepted and the next record, dated the
\* day before, stopped the run.
C5_Witness ==
  /\ pc = "finish" /\ stop = "date"
  /\ \E i \in 1 .. Len(accepted) : load_date(accepted[i].time) = oldest_date
  /\ LET k == FirstOlder(data.value, oldest_date)
     IN  k # 0 /\ load_date(data.value[k].time) = oldest_date - 1

\* ---------------------------------------------------------------------- C6

\* C6: every step leaves what an archive held as the end of what it holds:
\* save_msg only prepends.
C6_PrependOnly ==
  [][\A c \in ChatIds : IsSuffix(archive[c], archive'[c])]_vars

\* A run has written above content that an earlier run had written.
C6_Witness ==
  /\ pc = "done"
  /\ archive0 # <<>>
  /\ Len(archive[chat]) > Len(archive0)

\* ---------------------------------------------------------------------- C7

\* One entry for each message of the batch, in the order given.
C7_InOrder(b) == [i \in 1 .. Len(b) |-> EntryLine(b[i])]

\* The message has a body or attachments.
C7_Listed(m) == m.body # " " \/ m.attachments # 0

\* One entry for each message of the batch that has a body or attachments,
\* the last message first.
C7_LastFirst(b) ==
  LET k == SelectSeq(b, C7_Listed)
  IN  [i \in 1 .. Len(k) |->
         [type |-> "entry", chat |-> k[Len(k) + 1 - i].chat,
          id |-> k[Len(k) + 1 - i].id, time |-> k[Len(k) + 1 - i].time,
          attachments |-> k[Len(k) + 1 - i].attachments]]

\* C7 (as claimed): after B1 (accepted) and then B2 (messages) are flushed,
\* the entries of the document are those of B2 in the order given, then
\* those of B1 in the order given, then the prior ones.
C7_BatchesInOrder ==
  pc = "flushed" =>
    Entries(archive[chat]) =
      C7_InOrder(messages) \o C7_InOrder(accepted) \o Entries(archive0)

\* C7 (amended): the entries of the document are those of B2, the last
\* message first, then those of B1, the last message first, then the prior
\* ones, where a blank message without attachments has no entry; the prior
\* content is the end of the document, and the title heading is written once.
C7_BatchesLastFirst ==
  pc = "flushed" =>
    /\ Entries(archive[chat]) =
         C7_LastFirst(messages) \o C7_LastFirst(accepted) \o Entries(archive0)
    /\ IsSuffix(archive0, archive[chat])
    /\ Cardinality({k \in 1 .. Len(archive[chat]) :
                      archive[chat][k].type = "title"}) = 1

\* Two batches of two messages, one of them blank, above an earlier flush.
C7_Witness ==
  /\ pc = "flushed"
  /\ Len(accepted) = 2 /\ Len(messages) = 2
  /\ archive0 # <<>>
  /\ \E i \in 1 .. 2 : ~C7_Listed(accepted[i])
  /\ Len(Entries(archive[chat])) = 4

\* ---------------------------------------------------------------------- C8

\* C8 (as claimed): the first line of an archive is the title heading, and
\* every message entry comes after it.
C8_TitleFirst ==
  \A c \in ChatIds :
    archive[c] # <<>> =>
      /\ archive[c][1].type = "title"
      /\ \A j, k \in 1 .. Len(archive[c]) :
           (archive[c][j].type = "title" /\ archive[c][k].type = "entry")
           => j < k

\* ---------------------------------------------------------------------- C9

\* The server lists the records of the conversation newest first.
ServerNewestFirst ==
  \A i \in 1 .. (conv.len - 1) :
    RawRecord(conv, "a", i).time >= RawRecord(conv, "a", i + 1).time

\* C9 (as claimed): the entries of an archive, top to bottom, are in
\* descending chronological order.
C9_NewestFirst ==
  ServerNewestFirst =>
    \A c \in ChatIds :
      LET e == Entries(archive[c])
      IN  \A i \in 1 .. (Len(e) - 1) : e[i].time >= e[i + 1].time

\* C9 (amended): as long as no page has been fetched twice, the entries of an
\* archive, top to bottom, are in ascending chronological order (the oldest
\* first).
C9_OldestFirst ==
  (ServerNewestFirst /\ ~refetched) =>
    \A c \in ChatIds :
      LET e == Entries(archive[c])
      IN  \A i \in 1 .. (Len(e) - 1) : e[i].time <= e[i + 1].time

\* A second flush has put older messages above the entries of a first one.
C9_Witness ==
  /\ ServerNewestFirst /\ ~refetched
  /\ pc = "done"
  /\ Len(Entries(archive0)) > 0
  /\ EntriesAdded > 0
  /\ Entries(archive[chat])[1].time < Entries(archive0)[1].time

\* --------------------------------------------------------------------- C10

\* C10: a stored cursor is null only if a run has fetched the last page of the
\* chat, the one with no next link; a run ended by a decline, a cutoff or a
\* failed request has stored no null cursor.
C10_NullOnlyIfExhausted ==
  /\ \A c \in ChatIds :
       progress[c].next_url = Null => maxpage[c] = NumPages(conv)
  /\ (/\ stop \in {"declined", "max", "date", "forbidden", "error"}
      /\ ckpts > 0)
     => (HasEntry(chat) /\ progress[chat].next_url # Null)

\* A cutoff on the last page: the page has no next link, the stored cursor is
\* not null.
C10_Witness ==
  /\ pc = "done" /\ stop \in {"max", "date"}
  /\ data.next = Null
  /\ HasEntry(chat) /\ progress[chat].next_url = url

\* --------------------------------------------------------------------- C11

\* The chats of the list main is going through.
Listed == {chat_list[k] : k \in 1 .. Len(chat_list)}

\* C11 (as claimed): under --download-all no failure of a request, of any
\* kind, ends main: main reaches the end of the list, and download_chat has
\* then been called on every chat of the list.
C11_BulkNeverAborts ==
  /\ main.pc # "raised"
  /\ main.pc = "bye" => \A c \in Listed : main.result[c] # "none"

\* --------------------------------------------------------------------- C12

\* What the archive of chat c holds after a first download that no request
\* failure ends, with main's limits.
LoneArchive(c) ==
  LET r == LoopFrom(conv, c, 1, <<>>, 0, main.max_msg, main.oldest_date)
  IN  IF r.messages = <<>> THEN <<>> ELSE save_msg(<<>>, r.messages, c)

C12_State ==
  /\ stop = "forbidden" => pc = "done"
  /\ (stop = "forbidden" /\ maxpage[chat] = 0) =>
       (archive[chat] = <<>> /\ ~HasEntry(chat))
  /\ (main.pc = "bye" /\ main.n = 1) =>
       \A c \in Listed :
         /\ main.result[c] \in {"forbidden", "exhausted", "max", "date"}
         /\ main.result[c] # "forbidden" => archive[c] = LoneArchive(c)

C12_Step ==
  /\ (stop' = "forbidden" /\ stop # "forbidden") =>
       (archive' = archive /\ progress' = progress /\ chat_list' = chat_list)
  /\ (pc = "done" /\ stop = "forbidden") =>
       (main'.pc = "loop" /\ main'.chats = Tail(main.chats) /\ pc' = "idle")

\* C12: a 403 on a request of a chat, the first or a later one, ends the
\* download of that chat and changes no file: the archives, the checkpoint
\* entries and the cached list are what they were; download_chat returns to
\* main, which goes on with the next chat of the list; a 403 on the first
\* request ever made for a chat leaves it without archive and without
\* checkpoint entry; and when the first --download-all run is over, every
\* chat of the list that got no 403 has the archive that its download alone
\* gives.
C12_ForbiddenEndsOnlyThatChat == []C12_State /\ [][C12_Step]_vars

\* The first chat of the list got a 403 on its first request; the second was
\* downloaded to its last page.
C12_Witness ==
  /\ main.pc = "bye" /\ main.n = 1
  /\ main.result["a"] = "forbidden"
  /\ archive["a"] = <<>> /\ ~HasEntry("a")
  /\ main.result["b"] = "exhausted"
  /\ Len(Entries(archive["b"])) = conv.len

\* --------------------------------------------------------------------- C13

\* The messages of msgs that come from page p or a later page.
FromPage(msgs, p) ==
  LET After(m) == m.id > (p - 1) * conv.pagelen
  IN  SelectSeq(msgs, After)

\* What a run of the chat from page one accepts with the limits of the
\* current run but maxm for max_messages, when nothing interrupts it.
Uninterrupted(maxm) ==
  LoopFrom(conv, chat, 1, <<>>, 0, maxm, oldest_date).messages

\* A run that resumed from a stored cursor has ended by itself.
ResumedRunOver ==
  pc = "done" /\ started > 1 /\ stop \in {"exhausted", "max", "date"}

\* The messages an uninterrupted run accepts on the pages before the cursor.
AcceptedBefore ==
  Len(Uninterrupted(NoMax)) - Len(FromPage(Uninterrupted(NoMax), started))

\* An uninterrupted run with the limits of the current run gets to the page
\* of the cursor.
ReachesCursor ==
  LoopFrom(conv, chat, 1, <<>>, 0, max_messages, oldest_date).url >= started

\* C13 (as claimed): a run resumed from the cursor stored after N pages
\* accepts the messages that an uninterrupted run with the same limits, one
\* that gets to page N+1, accepts from page N+1 on.
C13_SameAsUninterrupted ==
  (ResumedRunOver /\ ReachesCursor) =>
    accepted = FromPage(Uninterrupted(max_messages), started)

\* C13 (amended): a run resumed from the cursor stored after N pages accepts
\* the messages that an uninterrupted run with the same oldest date accepts
\* from page N+1 on, when that run has no max_messages or has for max_messages
\* that of the resumed run plus the number of messages accepted on pages
\* 1..N: the count of a resumed run starts again from zero.
C13_SameButCountRestarts ==
  ResumedRunOver =>
    accepted =
      FromPage(Uninterrupted(IF max_messages = NoMax THEN NoMax
                             ELSE max_messages + AcceptedBefore),
               started)

\* A resumed run has accepted max_messages messages, more than an
\* uninterrupted run with that limit accepts after the cursor.
C13_Witness ==
  /\ ResumedRunOver /\ stop = "max"
  /\ ReachesCursor
  /\ AcceptedBefore > 0
  /\ Len(accepted) = max_messages
  /\ Len(FromPage(Uninterrupted(max_messages), started)) < max_messages

\* --------------------------------------------------------------------- C14

\* The process has just died in the middle of a run.
Died == pc \notin {"idle", "done"} /\ pc' = "idle"

C14_State ==
  /\ (pc = "fetch" /\ fetched = 0 /\ started > 1) =>
       url = progress[chat].next_url
  /\ (pc # "idle" /\ started > 1) => url >= started
  /\ (started > 1 /\ ckpts > 0) =>
       (progress[chat].next_url = Null \/ progress[chat].next_url > started)
  /\ \A c \in ChatIds :
       (pc = "idle" /\ progress[c].next_url = Null) =>
         \A i \in 1 .. conv.len :
           Written(Message(RawRecord(conv, c, i))) =>
             \/ i \in lost[c]
             \/ HasEntryFor(archive[c], Message(RawRecord(conv, c, i)))

C14_Step == Died => (progress' = progress /\ archive' = archive)

MidPage ==
  /\ accepted # <<>>
  /\ accepted[Len(accepted)].id < data.value[Len(data.value)].id

\* C15 (as claimed): after a run that the max-message cutoff stops in the
\* middle of a page, the checkpoint of the chat holds the cursor of that page,
\* and the records of the page after the cutoff have no entry.
C15_CursorOnCutoffPage ==
  (pc = "done" /\ stop = "max" /\ MidPage) =>
    /\ HasEntry(chat)
    /\ progress[chat].next_url = url
    /\ \A k \in 1 .. Len(data.value) :
         data.value[k].id > accepted[Len(accepted)].id =>
           ~HasEntryFor(archive[chat], Message(data.value[k]))

\* C15 (amended): when the max-message cutoff stops a run on a page, no
\* checkpoint is written for that page.  If the run has written a checkpoint
\* before (the cutoff is not on the first page it fetched), the checkpoint is
\* the one of the page before: its cursor is the cutoff page.  If the run
\* resumed from a cursor and the cutoff is on its first page, the checkpoint
\* still holds that cursor, the cutoff page.  If the run started from page one
\* and the cutoff is on page one, no stored cursor designates that page.  The
\* records after the cutoff are not accepted, and the run adds to the archive
\* the entries of the accepted messages only.
C15_CursorUnlessFirstPage ==
  stop = "max" =>
    /\ pc \in {"finish", "done"}
    /\ (ckpts > 0 \/ started > 1) => progress[chat].next_url = url
    /\ ckpts > 0 =>
         progress[chat] = [next_url |-> url, num |-> num_requests - 1]
    /\ (ckpts = 0 /\ started = 1) => progress[chat].next_url # url
    /\ \A k \in 1 .. Len(data.value) :
         data.value[k].id > accepted[Len(accepted)].id =>
           ~Accepted(data.value[k])
    /\ pc = "done" =>
         Entries(archive[chat]) =
           EntriesLastFirst(accepted) \o Entries(archive0)

\* Three pages of two messages and max_messages = 5: the cutoff is on the
\* first record of the third page, the stored cursor is the third page.
C15_Witness ==
  /\ pc = "done" /\ stop = "max" /\ MidPage
  /\ started = 1 /\ max_messages = 5 /\ url = 3
  /\ Len(Entries(archive[chat])) = 5
  /\ progress[chat].next_url = 3

\* --------------------------------------------------------------------- C16

\* C16: when a page that has a next link is done with, the loop asks whether
\* to go on exactly when ask_continue is positive and the number of requests
\* of the run is a multiple of it; a run that the user's answer ended has
\* made no request after the question; with ask_continue <= 0 there is no
\* question.
C16_AskEveryInterval ==
  /\ pc = "ask" =>
       /\ data.next # Null
       /\ num_requests = fetched
       /\ MustAsk <=> (ask_continue > 0 /\ num_requests % ask_continue = 0)
  /\ stop = "declined" =>
       /\ pc \in {"finish", "done"}
       /\ ask_continue > 0
       /\ num_requests % ask_continue = 0
       /\ fetched = num_requests
  /\ ask_continue <= 0 => stop # "declined"

\* The second question of a run that asks every two requests.
C16_Witness ==
  /\ pc = "ask" /\ MustAsk
  /\ ask_continue = 2
  /\ num_requests = 4

\* --------------------------------------------------------------------- C17

\* C17: a step that changes chat_progress changes the entry of the chat being
\* downloaded and nothing else of TEMP_FILE: every other entry and the cached
\* chat list are what they were; a step that changes the cached chat list
\* leaves chat_progress as it was.
C17_ReadMergeWrite ==
  [][/\ progress' # progress =>
         /\ chat_list' = chat_list
         /\ \A c \in ChatIds \ {chat} : progress'[c] = progress[c]
         /\ progress'[chat] # NoEntry
     /\ chat_list' # chat_list => progress' = progress]_vars

\* A checkpoint has been written for the second chat while the first has its
\* entry and the list is cached.
C17_Witness ==
  /\ chat = "b" /\ ckpts > 0
  /\ HasEntry("a") /\ HasEntry("b")
  /\ chat_list = ServerChats

\* --------------------------------------------------------------------- C18

\* save_msg done write by write leaves in the file what save_msg gives.
WriteIsSaveMsg ==
  pc = "written" => archive[chat] = save_msg(archive0, messages, chat)

\* C18 (as claimed): when the process has died in the middle of save_msg, the
\* archive still ends with the whole content it held before the call.
C18_TailSurvivesCrash ==
  pc = "crashed" => IsSuffix(archive0, archive[chat])

\* --------------------------------------------------------------------- C19

\* The raw record is a plain message that lacks a field the loop reads.
Malformed(r) == r.kind \in {"nodate", "nofrom"}

\* C19 (as claimed): when the loop leaves a page, no malformed record of the
\* page has been accepted or counted, and a stop for the oldest date was not
\* set off by a malformed record.
C19_MalformedSkipped ==
  PageRead =>
    /\ \A k \in 1 .. Len(data.value) :
         Malformed(data.value[k]) => ~Accepted(data.value[k])
    /\ tot_msg = Len(accepted)
    /\ stop = "date" =>
         WellFormed(data.value[FirstOlder(data.value, oldest_date)])

\* --------------------------------------------------------------------- C20

\* The messages of msgs that save_msg writes.
NumWritten(msgs) == Len(SelectSeq(msgs, Written))

\* C20: when the checkpoint of a page is written and when a page is
\* requested, the buffer holds at most SAVE_EVERY messages: a longer buffer
\* has been written to the archive and emptied; the buffer never holds more
\* than SAVE_EVERY messages and a page; and while the run goes on, the
\* messages accepted are in the buffer or in the archive.
C20_BufferBounded ==
  /\ pc \in {"checkpoint", "ask", "fetch"} => Len(messages) <= SAVE_EVERY
  /\ Len(messages) <= SAVE_EVERY + TOP
  /\ pc \in {"records", "save", "checkpoint", "ask", "fetch", "finish"} =>
       NumWritten(accepted) = NumWritten(messages) + EntriesAdded

\* The page that brought the buffer over SAVE_EVERY is done with: the buffer
\* is empty and its messages are in the archive.
C20_Witness ==
  /\ pc = "checkpoint"
  /\ messages = <<>>
  /\ Len(accepted) > SAVE_EVERY
  /\ EntriesAdded = Len(accepted)

====
